---- MODULE Spec2Model ----
(***************************************************************************)
(* The two Lambda entry points of modules/lambda/python/src:               *)
(*   gamelift_handler.lambda_handler  (the Fleet Handler)                  *)
(*   handler.lambda_handler, handler.health_check  (the Demo Handler)      *)
(* Each invocation is a sequential function of the event, the context, the *)
(* process environment and, for the Fleet Handler, of what boto3 does when *)
(* the client is constructed and when its one API method is called.        *)
(*                                                                         *)
(* Python values are tagged records [t, v]:                                *)
(*   none, str, num, list, map, datetime; "absent" marks a missing key.    *)
(* A str holds a TLA+ string, except                                       *)
(*   - a request body, whose text is the sequence of its JSON tokens, and  *)
(*   - a message, which is the sequence of the pieces of its (f-)string.   *)
(* A mapping is a record over a fixed key universe, absent keys marked.    *)
(***************************************************************************)
EXTENDS Integers, Sequences, FiniteSets, TLC

VARIABLES pc, handler, event, context, environ, client, result

vars == <<pc, handler, event, context, environ, client, result>>

---------------------------------------------------------------------------
(* Bounds of the model *)

\* longest collection (fleet ids, fleet attribute records) a remote call returns
MaxFleets == 2

---------------------------------------------------------------------------
(* Python values *)

Absent == [t |-> "absent", v |-> 0]
None_ == [t |-> "none", v |-> 0]
Str(s) == [t |-> "str", v |-> s]
Num(n) == [t |-> "num", v |-> n]
List(s) == [t |-> "list", v |-> s]
Map(m) == [t |-> "map", v |-> m]
DateTime(i) == [t |-> "datetime", v |-> i]

\* dict.get(key, default)
Get(d, key, default) ==
    IF d[key] = Absent THEN default ELSE d[key]

\* dict.get(key): the default is None
Get1(d, key) ==
    Get(d, key, None_)

\* the truth value Python gives a value (`if x`, `not x`)
Truthy(x) ==
    CASE x.t = "none" -> FALSE
      [] x.t = "str" -> x.v # ""
      [] x.t = "num" -> x.v # 0
      [] x.t = "list" -> x.v # <<>>
      [] x.t = "map" -> \E k \in DOMAIN x.v : x.v[k] # Absent
      [] OTHER -> TRUE

IsStr(x, s) ==
    x.t = "str" /\ x.v = s

DigitText == <<"0", "1", "2", "3", "4", "5", "6", "7", "8", "9">>

\* datetime.isoformat() and str(datetime) of the two instants of the model
IsoText == <<"2024-01-01T00:00:00+00:00", "2025-06-30T12:30:00+00:00">>
StrText == <<"2024-01-01 00:00:00+00:00", "2025-06-30 12:30:00+00:00">>

isoformat(d) ==
    Str(IsoText[d.v])

\* what an f-string puts in place of {x}: format(x), the str() of the value
PyStr(x) ==
    CASE x.t = "str" -> x.v
      [] x.t = "none" -> "None"
      [] x.t = "num" -> DigitText[x.v + 1]
      [] x.t = "datetime" -> StrText[x.v]
      [] x.t = "list" /\ x.v = <<>> -> "[]"
      [] OTHER -> "<repr>"

\* a message: the concatenation of its pieces, the literal parts of the
\* (f-)string and the formatted values between them
Fmt(pieces) ==
    [t |-> "str", v |-> pieces]

---------------------------------------------------------------------------
(* JSON text: json.loads *)

BodyKeys == {"action", "fleet_id", "test"}
KeyOrder == <<"action", "fleet_id", "test">>
EmptyDict == [k \in BodyKeys |-> Absent]

\* a token of JSON text: punctuation, a string literal, a number literal (its
\* digit), the literal null, or characters that form no JSON token
P(c) == [k |-> "p", v |-> c]
S(s) == [k |-> "s", v |-> s]
N(n) == [k |-> "n", v |-> DigitText[n + 1]]
NullTok == [k |-> "null", v |-> "null"]
JunkTok == [k |-> "junk", v |-> "oops"]

\* int(digit)
IntOf(digit) ==
    (CHOOSE i \in DOMAIN DigitText : DigitText[i] = digit) - 1

IsScalarTok(tok) ==
    tok.k \in {"s", "n", "null"}

ScalarOf(tok) ==
    CASE tok.k = "s" -> Str(tok.v)
      [] tok.k = "n" -> Num(IntOf(tok.v))
      [] OTHER -> None_

\* the members of an array, between its brackets: scalars separated by commas
IsElements(inner) ==
    \/ inner = <<>>
    \/ /\ Len(inner) % 2 = 1
       /\ \A i \in DOMAIN inner :
            IF i % 2 = 1 THEN IsScalarTok(inner[i]) ELSE inner[i] = P(",")

\* the members of an object, between its braces: "key": scalar, separated by commas
IsMembers(inner) ==
    \/ inner = <<>>
    \/ /\ Len(inner) % 4 = 3
       /\ \A i \in DOMAIN inner :
            CASE i % 4 = 1 -> inner[i].k = "s"
              [] i % 4 = 2 -> inner[i] = P(":")
              [] i % 4 = 3 -> IsScalarTok(inner[i])
              [] OTHER -> inner[i] = P(",")

\* the dict an object's members build: a repeated key keeps its last value
DictOf(inner) ==
    [key \in BodyKeys |->
        LET at == {i \in DOMAIN inner : i % 4 = 1 /\ inner[i].v = key}
        IN  IF at = {} THEN Absent
            ELSE LET last == CHOOSE i \in at : \A j \in at : j <= i
                 IN  ScalarOf(inner[last + 2])]

\* json.loads(text): [ok |-> TRUE, val] or, on json.JSONDecodeError, [ok |-> FALSE]
json_loads(text) ==
    LET n == Len(text)
        inner == SubSeq(text, 2, n - 1)
        bad == [ok |-> FALSE, val |-> None_]
    IN  CASE n = 0 -> bad
          [] n = 1 ->
               IF IsScalarTok(text[1]) THEN [ok |-> TRUE, val |-> ScalarOf(text[1])]
               ELSE bad
          [] n >= 2 /\ text[1] = P("[") /\ text[n] = P("]") ->
               IF IsElements(inner)
               THEN [ok |-> TRUE,
                     val |-> List([i \in 1..((Len(inner) + 1) \div 2) |->
                                      ScalarOf(inner[2 * i - 1])])]
               ELSE bad
          [] n >= 2 /\ text[1] = P("{") /\ text[n] = P("}") ->
               IF IsMembers(inner)
               THEN [ok |-> TRUE, val |-> Map(DictOf(inner))]
               ELSE bad
          [] OTHER -> bad

---------------------------------------------------------------------------
(* JSON documents: json.dumps *)

JNull == [t |-> "null", v |-> 0]
Unserialisable == [t |-> "TypeError", v |-> 0]

RECURSIVE JsonOf(_, _)
\* the JSON value json.dumps writes for a Python value; `coerce` is default=str
JsonOf(x, coerce) ==
    CASE x.t = "none" -> JNull
      [] x.t = "datetime" -> IF coerce THEN Str(StrText[x.v]) ELSE Unserialisable
      [] x.t = "list" -> List([i \in DOMAIN x.v |-> JsonOf(x.v[i], coerce)])
      [] x.t = "map" ->
           Map([k \in DOMAIN x.v |->
                   IF x.v[k] = Absent THEN Absent ELSE JsonOf(x.v[k], coerce)])
      [] OTHER -> x

\* json.dumps(obj, indent=2[, default=str]): the document, member by member
json_dumps(obj, coerce) ==
    [k \in DOMAIN obj |-> JsonOf(obj[k], coerce)]

---------------------------------------------------------------------------
(* Results of an invocation *)

NoResponse == [statusCode |-> 0, headers |-> <<>>, body |-> <<>>]

\* the handler returned `response`, having issued the remote calls `calls`
Returned(response, calls) ==
    [fault |-> "none", response |-> response, calls |-> calls]

\* the handler let exception `exc` escape to the runtime
Raised(exc, calls) ==
    [fault |-> exc, response |-> NoResponse, calls |-> calls]

CorsHeaders ==
    [ContentType |-> "application/json",
     AccessControlAllowOrigin |-> "*",
     AccessControlAllowHeaders |-> "Content-Type,X-Amz-Date,Authorization,X-Api-Key",
     AccessControlAllowMethods |-> "GET,POST,OPTIONS"]

\* context.aws_request_id if hasattr(context, 'aws_request_id') else 'N/A'
Timestamp(ctx) ==
    IF ctx.aws_request_id # Absent THEN ctx.aws_request_id ELSE Str("N/A")

---------------------------------------------------------------------------
(* gamelift_handler.py *)

\* a mutation: details are attached whenever the argument is not None
create_error_response_always_details(status_code, message, details, ctx) ==
    LET error_body == [status |-> Str("error"),
                       message |-> message,
                       timestamp |-> Timestamp(ctx)]
        with_details == IF details # None_
                        THEN error_body @@ [details |-> details]
                        ELSE error_body
    IN  [statusCode |-> status_code,
         headers |-> CorsHeaders,
         body |-> json_dumps(with_details, FALSE)]

create_error_response(status_code, message, details, ctx) ==
    LET error_body == [status |-> Str("error"),
                       message |-> message,
                       timestamp |-> Timestamp(ctx)]
        with_details == IF Truthy(details)
                        THEN error_body @@ [details |-> details]
                        ELSE error_body
    IN  [statusCode |-> status_code,
         headers |-> CorsHeaders,
         body |-> json_dumps(with_details, FALSE)]

ListCall == [op |-> "list_fleets", FleetIds |-> <<>>]
DescribeCall(fleet_id) == [op |-> "describe_fleet_attributes", FleetIds |-> <<fleet_id>>]

\* the except clauses shared by both operations: ClientError, then Exception
remote_error_response(out, generic, ctx) ==
    IF out.kind = "ClientError"
    THEN create_error_response(500,
                               Fmt(<<"GameLift API error: ", PyStr(out.code)>>),
                               out.message, ctx)
    ELSE create_error_response(500, Fmt(<<generic>>), out.message, ctx)

\* a mutation: a missing continuation token is reported as the empty string
list_fleets_body_empty_token(response, ctx) ==
    LET fleet_ids == Get(response, "FleetIds", List(<<>>))
        next_token == Get(response, "NextToken", Str(""))
    IN  [status |-> Str("success"),
         operation |-> Str("list_fleets"),
         fleet_count |-> Num(Len(fleet_ids.v)),
         fleets |-> fleet_ids,
         next_token |-> next_token,
         timestamp |-> Timestamp(ctx)]

\* the success body of handle_list_fleets
list_fleets_body(response, ctx) ==
    LET fleet_ids == Get(response, "FleetIds", List(<<>>))
        next_token == Get(response, "NextToken", None_)
    IN  [status |-> Str("success"),
         operation |-> Str("list_fleets"),
         fleet_count |-> Num(Len(fleet_ids.v)),
         fleets |-> fleet_ids,
         next_token |-> next_token,
         timestamp |-> Timestamp(ctx)]

\* a mutation: a failed call is issued a second time before the error is reported
handle_list_fleets_retry(gamelift_client, ctx) ==
    LET out == gamelift_client.outcome
    IN  IF out.kind = "ok"
        THEN Returned([statusCode |-> 200,
                       headers |-> CorsHeaders,
                       body |-> json_dumps(list_fleets_body(out.response, ctx), TRUE)],
                      <<ListCall>>)
        ELSE Returned(remote_error_response(out, "Unexpected error listing fleets", ctx),
                      <<ListCall, ListCall>>)

handle_list_fleets(gamelift_client, ctx) ==
    LET out == gamelift_client.outcome
        calls == <<ListCall>>
    IN  IF out.kind = "ok"
        THEN Returned([statusCode |-> 200,
                       headers |-> CorsHeaders,
                       body |-> json_dumps(list_fleets_body(out.response, ctx), TRUE)],
                      calls)
        ELSE Returned(remote_error_response(out, "Unexpected error listing fleets", ctx),
                      calls)

FleetTimeKeys == {"CreationTime", "TerminationTime"}

\* fleet.get(key).isoformat() if fleet.get(key) else None
iso_or_none(fleet, key) ==
    IF Truthy(Get1(fleet, key)) THEN isoformat(Get1(fleet, key)) ELSE None_

\* .isoformat() of a value that is no datetime raises AttributeError
convert_raises(fleet) ==
    \E key \in FleetTimeKeys :
        Truthy(Get1(fleet, key)) /\ Get1(fleet, key).t # "datetime"

convert_fleet_to_dict(fleet) ==
    Map([FleetId |-> Get1(fleet, "FleetId"),
         FleetArn |-> Get1(fleet, "FleetArn"),
         FleetType |-> Get1(fleet, "FleetType"),
         EC2InstanceType |-> Get1(fleet, "EC2InstanceType"),
         BuildId |-> Get1(fleet, "BuildId"),
         Status |-> Get1(fleet, "Status"),
         Description |-> Get1(fleet, "Description"),
         Name |-> Get1(fleet, "Name"),
         CreationTime |-> iso_or_none(fleet, "CreationTime"),
         TerminationTime |-> iso_or_none(fleet, "TerminationTime")])

\* a mutation: the last record is described, not the first
selected_fleet_last(fleet_attributes) ==
    fleet_attributes.v[Len(fleet_attributes.v)]

\* fleet = fleet_attributes[0]
selected_fleet(fleet_attributes) ==
    fleet_attributes.v[1]

handle_describe_fleet(gamelift_client, fleet_id, ctx) ==
    LET out == gamelift_client.outcome
        calls == <<DescribeCall(fleet_id)>>
        generic == "Unexpected error describing fleet"
        fleet_attributes == Get(out.response, "FleetAttributes", List(<<>>))
        fleet == selected_fleet(fleet_attributes)
    IN  CASE out.kind # "ok" ->
               Returned(remote_error_response(out, generic, ctx), calls)
          [] out.kind = "ok" /\ ~Truthy(fleet_attributes) ->
               Returned(create_error_response(
                            404, Fmt(<<"Fleet not found: ", PyStr(fleet_id)>>),
                            None_, ctx),
                        calls)
          [] out.kind = "ok" /\ Truthy(fleet_attributes) /\ convert_raises(fleet.v) ->
               Returned(create_error_response(
                            500, Fmt(<<generic>>),
                            Str("object has no attribute 'isoformat'"), ctx),
                        calls)
          [] OTHER ->
               Returned([statusCode |-> 200,
                         headers |-> CorsHeaders,
                         body |-> json_dumps(
                                      [status |-> Str("success"),
                                       operation |-> Str("describe_fleet"),
                                       fleet |-> convert_fleet_to_dict(fleet.v),
                                       timestamp |-> Timestamp(ctx)], TRUE)],
                        calls)

\* body = event.get('body', '{}'); json.loads if it is a str, {} on JSONDecodeError
gamelift_body_data(ev) ==
    LET body == Get(ev, "body", Str(<<P("{"), P("}")>>))
        parsed == json_loads(body.v)
    IN  IF body.t = "str"
        THEN IF parsed.ok THEN parsed.val ELSE Map(EmptyDict)
        ELSE body

\* a mutation: only an absent or null fleet_id counts as missing
missing_fleet_id_none_only(fleet_id) ==
    fleet_id.t = "none"

\* if not fleet_id
missing_fleet_id(fleet_id) ==
    ~Truthy(fleet_id)

\* a mutation: an unknown action is served as the default action
unknown_action_lists(action, gamelift_client, ctx) ==
    handle_list_fleets(gamelift_client, ctx)

\* the else branch of the action dispatch
unknown_action(action, gamelift_client, ctx) ==
    Returned(create_error_response(
                 400, Fmt(<<"Unknown action: ", PyStr(action)>>), None_, ctx),
             <<>>)

\* the POST branch; body_data.get raises AttributeError unless body_data is a dict
handle_post(ev, gamelift_client, ctx) ==
    LET body_data == gamelift_body_data(ev)
        action == Get(body_data.v, "action", Str("list_fleets"))
        fleet_id == Get1(body_data.v, "fleet_id")
    IN  CASE body_data.t # "map" ->
               Raised("AttributeError", <<>>)
          [] body_data.t = "map" /\ IsStr(action, "list_fleets") ->
               handle_list_fleets(gamelift_client, ctx)
          [] body_data.t = "map" /\ IsStr(action, "describe_fleet") ->
               IF missing_fleet_id(fleet_id)
               THEN Returned(create_error_response(
                                 400, Fmt(<<"Missing required parameter: fleet_id">>),
                                 None_, ctx),
                             <<>>)
               ELSE handle_describe_fleet(gamelift_client, fleet_id, ctx)
          [] OTHER ->
               unknown_action(action, gamelift_client, ctx)

\* a mutation: an unsupported method is answered as a bad request
method_not_supported_400(http_method, ctx) ==
    create_error_response(
        400, Fmt(<<"Method ", PyStr(http_method), " not supported">>), None_, ctx)

\* the else branch of the method dispatch
method_not_supported(http_method, ctx) ==
    create_error_response(
        405, Fmt(<<"Method ", PyStr(http_method), " not supported">>), None_, ctx)

\* gamelift_handler.lambda_handler
gamelift_lambda_handler(ev, ctx, env, gamelift_client) ==
    LET http_method == Get(ev, "httpMethod", Str("GET"))
    IN  CASE gamelift_client.construct # "ok" ->
               Returned(create_error_response(
                            500, Fmt(<<"Failed to initialize GameLift client">>),
                            gamelift_client.error, ctx),
                        <<>>)
          [] gamelift_client.construct = "ok" /\ IsStr(http_method, "GET") ->
               handle_list_fleets(gamelift_client, ctx)
          [] gamelift_client.construct = "ok" /\ IsStr(http_method, "POST") ->
               handle_post(ev, gamelift_client, ctx)
          [] OTHER ->
               Returned(method_not_supported(http_method, ctx), <<>>)

---------------------------------------------------------------------------
(* handler.py *)

\* body = event.get('body', '{}'); json.loads if it is a str, {} on JSONDecodeError
demo_body_data(ev) ==
    LET body == Get(ev, "body", Str(<<P("{"), P("}")>>))
        parsed == json_loads(body.v)
    IN  IF body.t = "str"
        THEN IF parsed.ok THEN parsed.val ELSE Map(EmptyDict)
        ELSE body

\* the GET branch
demo_get_body(http_method, path, env, ctx) ==
    [status |-> Str("success"),
     message |-> Fmt(<<"Python Lambda is running!">>),
     environment |-> Get(env, "ENVIRONMENT", Str("unknown")),
     project |-> Get(env, "PROJECT", Str("unknown")),
     method |-> http_method,
     path |-> path,
     timestamp |-> Timestamp(ctx)]

\* the POST branch
demo_post_body(ev, env, ctx) ==
    [status |-> Str("success"),
     message |-> Fmt(<<"POST request received">>),
     environment |-> Get(env, "ENVIRONMENT", Str("unknown")),
     project |-> Get(env, "PROJECT", Str("unknown")),
     received_data |-> demo_body_data(ev),
     timestamp |-> Timestamp(ctx)]

\* the else branch: built in place, without timestamp or details
demo_unsupported_body(http_method) ==
    [status |-> Str("error"),
     message |-> Fmt(<<"Method ", PyStr(http_method), " not supported">>),
     supported_methods |-> List(<<Str("GET"), Str("POST")>>)]

\* a mutation: the GET branch reports the status of the error branch
demo_status_code_swapped(http_method) ==
    CASE IsStr(http_method, "GET") -> 405
      [] IsStr(http_method, "POST") -> 200
      [] OTHER -> 405

demo_status_code(http_method) ==
    CASE IsStr(http_method, "GET") -> 200
      [] IsStr(http_method, "POST") -> 200
      [] OTHER -> 405

\* handler.lambda_handler
demo_lambda_handler(ev, ctx, env) ==
    LET http_method == Get(ev, "httpMethod", Str("GET"))
        path == Get(ev, "path", Str("/"))
        response_body ==
            CASE IsStr(http_method, "GET") -> demo_get_body(http_method, path, env, ctx)
              [] IsStr(http_method, "POST") -> demo_post_body(ev, env, ctx)
              [] OTHER -> demo_unsupported_body(http_method)
    IN  Returned([statusCode |-> demo_status_code(http_method),
                  headers |-> CorsHeaders,
                  body |-> json_dumps(response_body, FALSE)],
                 <<>>)

\* handler.health_check
health_check(ev, ctx, env) ==
    Returned([statusCode |-> 200,
              headers |-> [ContentType |-> "application/json"],
              body |-> json_dumps(
                           [status |-> Str("healthy"),
                            service |-> Str("python-lambda"),
                            environment |-> Get(env, "ENVIRONMENT", Str("unknown"))],
                           FALSE)],
             <<>>)

---------------------------------------------------------------------------
(* The inputs of an invocation *)

SeqsUpTo(set, n) ==
    UNION {[1..k -> set] : k \in 0..n}

\* the token a scalar is written as
TokOf(x) ==
    CASE x.t = "str" -> S(x.v)
      [] x.t = "num" -> N(x.v)
      [] OTHER -> NullTok

RECURSIVE JoinComma(_)
JoinComma(parts) ==
    CASE parts = <<>> -> <<>>
      [] Len(parts) = 1 -> parts[1]
      [] OTHER -> parts[1] \o <<P(",")>> \o JoinComma(Tail(parts))

\* the JSON text of a flat value, as a client would send it
TextOf(x) ==
    CASE x.t = "map" ->
           LET member(key) == IF x.v[key] = Absent THEN <<>>
                              ELSE <<S(key), P(":"), TokOf(x.v[key])>>
               members == SelectSeq([i \in DOMAIN KeyOrder |-> member(KeyOrder[i])],
                                    LAMBDA m : m # <<>>)
           IN  <<P("{")>> \o JoinComma(members) \o <<P("}")>>
      [] x.t = "list" ->
           <<P("[")>> \o JoinComma([i \in DOMAIN x.v |-> <<TokOf(x.v[i])>>]) \o <<P("]")>>
      [] OTHER -> <<TokOf(x)>>

ActionValues ==
    {Absent, None_, Str("list_fleets"), Str("describe_fleet"), Str("unknown_action")}

FleetIdValues ==
    {Absent, None_, Str(""), Str("fleet-123"), Num(5)}

BodyDicts ==
    [action : ActionValues, fleet_id : FleetIdValues, test : {Absent, Str("data")}]

\* JSON values that are no mapping
NonDicts ==
    {None_, Str("abc"), Num(5), List(<<>>), List(<<Str("fleet-123"), Num(5)>>)}

\* texts json.loads rejects
BadTexts ==
    {<<>>,
     <<JunkTok>>,
     <<P("{")>>,
     <<P("{"), S("action"), S("describe_fleet"), P("}")>>,
     <<P("{"), S("action"), P(":"), S("list_fleets"), P(","), P("}")>>,
     <<P("["), N(5), P(",")>>}

\* a text with a repeated key
RepeatedKeyTexts ==
    {<<P("{"), S("action"), P(":"), S("unknown_action"), P(","),
       S("action"), P(":"), S("describe_fleet"), P("}")>>}

BodyTexts ==
    {TextOf(Map(d)) : d \in BodyDicts} \cup {TextOf(x) : x \in NonDicts}
        \cup BadTexts \cup RepeatedKeyTexts

\* a body the runtime hands over already decoded
DecodedBodies ==
    {Map(EmptyDict),
     Map([EmptyDict EXCEPT !.test = Str("data")]),
     Map([EmptyDict EXCEPT !.action = Str("describe_fleet")]),
     Map([EmptyDict EXCEPT !.action = Str("describe_fleet"),
                           !.fleet_id = Str("fleet-123")]),
     Map([EmptyDict EXCEPT !.action = Str("unknown_action")]),
     List(<<>>)}

Bodies ==
    {Absent, None_} \cup {Str(text) : text \in BodyTexts} \cup DecodedBodies

Methods ==
    {Absent, None_, Str("GET"), Str("POST"), Str("DELETE")}

Events ==
    [httpMethod : Methods, path : {Absent, Str("/test")}, body : Bodies]

Contexts ==
    [aws_request_id : {Absent, Str("test-request-id-12345")}]

Environs ==
    [ENVIRONMENT : {Absent, Str("production")}, PROJECT : {Str("test-project")}]

FleetIdNames == {Str("fleet-1"), Str("fleet-2")}

FleetRecords ==
    [FleetId : FleetIdNames,
     FleetArn : {Str("arn:aws:gamelift:fleet")},
     FleetType : {Str("ON_DEMAND")},
     EC2InstanceType : {Str("c5.large")},
     BuildId : {Absent},
     Status : {Str("ACTIVE")},
     Description : {Absent},
     Name : {Str("fleet")},
     CreationTime : {Absent, DateTime(1)},
     TerminationTime : {Absent, DateTime(2)},
     OperatingSystem : {Str("AMAZON_LINUX_2")}]

EmptyResponse ==
    [FleetIds |-> Absent, NextToken |-> Absent, FleetAttributes |-> Absent]

ListResponses ==
    [FleetIds : {Absent} \cup {List(ids) : ids \in SeqsUpTo(FleetIdNames, MaxFleets)},
     NextToken : {Absent, Str("token-1")},
     FleetAttributes : {Absent}]

DescribeResponses ==
    [FleetIds : {Absent},
     NextToken : {Absent},
     FleetAttributes :
         {Absent} \cup
         {List(recs) : recs \in SeqsUpTo({Map(r) : r \in FleetRecords}, MaxFleets)}]

\* what the one API method does: it returns a response, raises
\* botocore.exceptions.ClientError, or raises another exception
OutcomesOf(op) ==
    [op : {op}, kind : {"ok"},
     response : IF op = "list_fleets" THEN ListResponses ELSE DescribeResponses,
     code : {Str("")}, message : {Str("")}]
    \cup
    [op : {op}, kind : {"ClientError"}, response : {EmptyResponse},
     code : {Str("AccessDeniedException"), Str("InternalServiceException")},
     message : {Str(""), Str("User is not authorized")}]
    \cup
    [op : {op}, kind : {"Exception"}, response : {EmptyResponse},
     code : {Str("")},
     message : {Str(""), Str("Read timeout on endpoint URL")}]

NoOutcome ==
    [op |-> "none", kind |-> "none", response |-> EmptyResponse,
     code |-> Str(""), message |-> Str("")]

NoClient ==
    [construct |-> "none", error |-> Str(""), outcome |-> NoOutcome]

\* boto3.client('gamelift') returns a client or raises
Constructions ==
    {[construct |-> "ok", error |-> Str(""), outcome |-> NoOutcome],
     [construct |-> "fail", error |-> Str("You must specify a region."),
      outcome |-> NoOutcome]}

\* the API method the handler calls for this request, "none" when it calls none
OpCalled(ev, ctx, env, cl) ==
    LET probe == gamelift_lambda_handler(ev, ctx, env, cl)
    IN  IF probe.calls = <<>> THEN "none" ELSE probe.calls[1].op

---------------------------------------------------------------------------
(* The runtime: one invocation at a time, nothing kept between invocations *)

NoEvent == [httpMethod |-> Absent, path |-> Absent, body |-> Absent]
NoContext == [aws_request_id |-> Absent]
NoEnviron == [ENVIRONMENT |-> Absent, PROJECT |-> Absent]
NoResult == Returned(NoResponse, <<>>)

Init ==
    /\ pc = "idle"
    /\ handler = "none"
    /\ event = NoEvent
    /\ context = NoContext
    /\ environ = NoEnviron
    /\ client = NoClient
    /\ result = NoResult

\* the runtime invokes gamelift_handler.lambda_handler
FleetInvoke ==
    /\ pc = "idle"
    /\ \E ev \in Events, ctx \in Contexts, env \in Environs, cl \in Constructions :
         LET op == OpCalled(ev, ctx, env, cl)
         IN  \E out \in (IF op = "none" THEN {NoOutcome} ELSE OutcomesOf(op)) :
               /\ handler' = "fleet"
               /\ event' = ev
               /\ context' = ctx
               /\ environ' = env
               /\ client' = [cl EXCEPT !.outcome = out]
               /\ result' = gamelift_lambda_handler(ev, ctx, env, client')
    /\ pc' = "returned"

\* the runtime invokes handler.lambda_handler
DemoInvoke ==
    /\ pc = "idle"
    /\ \E ev \in Events, ctx \in Contexts, env \in Environs :
         /\ handler' = "demo"
         /\ event' = ev
         /\ context' = ctx
         /\ environ' = env
         /\ result' = demo_lambda_handler(ev, ctx, env)
    /\ client' = NoClient
    /\ pc' = "returned"

\* the runtime invokes handler.health_check
HealthInvoke ==
    /\ pc = "idle"
    /\ \E ev \in Events, ctx \in Contexts, env \in Environs :
         /\ handler' = "health"
         /\ event' = ev
         /\ context' = ctx
         /\ environ' = env
         /\ result' = health_check(ev, ctx, env)
    /\ client' = NoClient
    /\ pc' = "returned"

\* the response (or the fault) has gone to the caller; the next invocation starts afresh
Deliver ==
    /\ pc = "returned"
    /\ pc' = "idle"
    /\ handler' = "none"
    /\ event' = NoEvent
    /\ context' = NoContext
    /\ environ' = NoEnviron
    /\ client' = NoClient
    /\ result' = NoResult

Next ==
    \/ FleetInvoke
    \/ DemoInvoke
    \/ HealthInvoke
    \/ Deliver

Spec == Init /\ [][Next]_vars

---------------------------------------------------------------------------
(* What the claims speak of *)

Finished == pc = "returned"
FleetDone == Finished /\ handler = "fleet"

StatusCode == result.response.statusCode
Body == result.response.body

\* the request's method: httpMethod, GET when the key is missing
Method ==
    IF event.httpMethod.t = "absent" THEN Str("GET") ELSE event.httpMethod

IsPost == IsStr(Method, "POST")
IsGet == IsStr(Method, "GET")

\* the body is a mapping, or a string whose JSON text is a mapping
SentDictGiven ==
    \/ event.body.t = "map"
    \/ /\ event.body.t = "str"
       /\ json_loads(event.body.v).ok
       /\ json_loads(event.body.v).val.t = "map"

SentDict ==
    IF event.body.t = "map" THEN event.body.v ELSE json_loads(event.body.v).val.v

\* the body is missing, null, or a string that is no JSON text
BodyAbsentOrUnparsable ==
    \/ event.body.t \in {"absent", "none"}
    \/ event.body.t = "str" /\ ~json_loads(event.body.v).ok

\* absent, null or empty
IsMissingId(x) ==
    \/ x.t \in {"absent", "none"}
    \/ x.t = "str" /\ x.v = ""

\* a string or a number that is not empty
IsNonEmptyId(x) ==
    \/ x.t = "str" /\ x.v # ""
    \/ x.t = "num" /\ x.v # 0

\* the text `piece` occurs in the message
Contains(message, piece) ==
    \E i \in DOMAIN message.v : message.v[i] = piece

IsError(kind) ==
    /\ result.fault = "none"
    /\ StatusCode = kind
    /\ Body.status = Str("error")

IsSuccess ==
    /\ result.fault = "none"
    /\ StatusCode = 200
    /\ Body.status = Str("success")

ClientInitError ==
    /\ IsError(500)
    /\ Body.message = Fmt(<<"Failed to initialize GameLift client">>)

---------------------------------------------------------------------------
(* C1 *)

\* C1: every invocation of the Fleet Handler returns an envelope with a
\* statusCode and a JSON body; no exception escapes to the caller.
C1_NoFaultEscapes ==
    FleetDone =>
        /\ result.fault = "none"
        /\ StatusCode \in {200, 400, 404, 405, 500}
        /\ "status" \in DOMAIN Body

---------------------------------------------------------------------------
(* C2 *)

C2_Case ==
    /\ FleetDone
    /\ IsPost
    /\ SentDictGiven
    /\ IsStr(SentDict.action, "describe_fleet")
    /\ IsMissingId(SentDict.fleet_id)

\* C2 as stated: describe_fleet with a missing fleet_id always yields 400
\* "Missing required parameter: fleet_id", and no remote call is issued.
C2_MissingFleetIdAlways400 ==
    C2_Case =>
        /\ IsError(400)
        /\ Body.message = Fmt(<<"Missing required parameter: fleet_id">>)
        /\ result.calls = <<>>

\* C2 as amended: describe_fleet with a missing fleet_id issues no remote call
\* and yields 400 "Missing required parameter: fleet_id" when the client was
\* constructed, 500 "Failed to initialize GameLift client" when it was not.
C2_MissingFleetId ==
    C2_Case =>
        /\ result.calls = <<>>
        /\ IF client.construct = "ok"
           THEN /\ IsError(400)
                /\ Body.message = Fmt(<<"Missing required parameter: fleet_id">>)
           ELSE ClientInitError

C2_Witness ==
    /\ C2_Case
    /\ client.construct = "ok"
    /\ event.body.t = "str"
    /\ SentDict.fleet_id = Str("")
    /\ IsError(400)

---------------------------------------------------------------------------
(* C3 *)

C3_Case ==
    /\ Finished
    /\ handler \in {"fleet", "demo"}
    /\ ~IsGet
    /\ ~IsPost

\* C3 as stated: a method other than GET and POST yields 405 with status
\* "error" on both handlers, whatever the construction of the client does.
C3_UnsupportedMethodAlways405 ==
    C3_Case => IsError(405)

\* C3 as amended: a method other than GET and POST yields status "error" with
\* 405 on the Demo Handler and, when the client was constructed, on the Fleet
\* Handler; when construction fails the Fleet Handler answers 500.
C3_UnsupportedMethod ==
    C3_Case =>
        IF handler = "fleet" /\ client.construct # "ok"
        THEN ClientInitError
        ELSE /\ IsError(405)
             /\ Contains(Body.message, PyStr(Method))

C3_Witness ==
    /\ C3_Case
    /\ handler = "fleet"
    /\ client.construct = "ok"
    /\ Method = Str("DELETE")
    /\ IsError(405)

---------------------------------------------------------------------------
(* C4 *)

C4_Case ==
    /\ Finished
    /\ handler \in {"fleet", "demo"}
    /\ IsGet

\* C4 as stated: every GET call, on both handlers, is answered 200 with
\* status "success".
C4_GetAlways200 ==
    C4_Case => IsSuccess

\* C4 as amended: a GET call is answered 200 "success" by the Demo Handler
\* always, and by the Fleet Handler when the client was constructed and the
\* list call returned; otherwise the Fleet Handler answers 500 "error".
C4_Get ==
    C4_Case =>
        IF handler = "demo" \/ (client.construct = "ok" /\ client.outcome.kind = "ok")
        THEN IsSuccess
        ELSE IsError(500)

C4_Witness ==
    /\ C4_Case
    /\ handler = "fleet"
    /\ event.httpMethod = Absent
    /\ event.body.t = "str"
    /\ IsSuccess

---------------------------------------------------------------------------
(* C5 *)

C5_Case ==
    /\ Finished
    /\ handler \in {"fleet", "demo"}
    /\ IsPost
    /\ BodyAbsentOrUnparsable

\* C5: a POST whose body is unparsable, missing or null is served as body {}
\* and raises nothing: the Demo Handler answers 200 with received_data {},
\* the Fleet Handler answers as it does for body {}.
C5_BodyTreatedAsEmpty ==
    C5_Case =>
        /\ result.fault = "none"
        /\ handler = "demo" =>
             /\ StatusCode = 200
             /\ Body.received_data = Map(EmptyDict)
        /\ handler = "fleet" =>
             result = gamelift_lambda_handler(
                          [event EXCEPT !.body = Map(EmptyDict)],
                          context, environ, client)

---------------------------------------------------------------------------
(* C6 *)

C6_Case ==
    /\ FleetDone
    /\ IsPost
    /\ SentDictGiven
    /\ IsStr(SentDict.action, "describe_fleet")
    /\ IsNonEmptyId(SentDict.fleet_id)
    /\ client.construct = "ok"
    /\ client.outcome.kind = "ok"

\* the record collection the describe call returned
ReturnedRecords ==
    LET attrs == client.outcome.response.FleetAttributes
    IN  IF attrs.t = "absent" THEN <<>> ELSE attrs.v

ProjectedKeys ==
    {"FleetId", "FleetArn", "FleetType", "EC2InstanceType", "BuildId", "Status",
     "Description", "Name", "CreationTime", "TerminationTime"}

\* the Fleet Record of the spec: the ten fields, null where the record has
\* none, the two timestamps in ISO-8601
ProjectionOf(rec) ==
    Map([key \in ProjectedKeys |->
            CASE rec.v[key].t = "absent" -> JNull
              [] rec.v[key].t = "datetime" -> Str(IsoText[rec.v[key].v])
              [] OTHER -> rec.v[key]])

\* C6: a describe_fleet request with a non-empty fleet_id is answered 404
\* "error" with the id in the message when the describe call returns no
\* record, and 200 with the projection of the first record otherwise.
C6_DescribeFleet ==
    C6_Case =>
        IF ReturnedRecords = <<>>
        THEN /\ IsError(404)
             /\ Contains(Body.message, PyStr(SentDict.fleet_id))
        ELSE /\ IsSuccess
             /\ Body.operation = Str("describe_fleet")
             /\ Body.fleet = ProjectionOf(ReturnedRecords[1])

C6_Witness ==
    /\ C6_Case
    /\ SentDict.fleet_id = Str("fleet-123")
    /\ client.outcome.response.FleetAttributes = List(<<>>)
    /\ IsError(404)
    /\ Body.message = Fmt(<<"Fleet not found: ", "fleet-123">>)

---------------------------------------------------------------------------
(* C7 *)

C7_Case ==
    /\ FleetDone
    /\ IsPost
    /\ SentDictGiven
    /\ SentDict.action.t # "absent"
    /\ ~IsStr(SentDict.action, "list_fleets")
    /\ ~IsStr(SentDict.action, "describe_fleet")

\* C7 as stated: a POST with an action other than list_fleets and
\* describe_fleet yields 400 "error" with the action in the message, and no
\* remote call.
C7_UnknownActionAlways400 ==
    C7_Case =>
        /\ IsError(400)
        /\ Contains(Body.message, PyStr(SentDict.action))
        /\ result.calls = <<>>

\* C7 as amended: such a POST issues no remote call and yields 400 "error"
\* with the action in the message when the client was constructed, 500
\* "Failed to initialize GameLift client" when it was not.
C7_UnknownAction ==
    C7_Case =>
        /\ result.calls = <<>>
        /\ IF client.construct = "ok"
           THEN /\ IsError(400)
                /\ Contains(Body.message, PyStr(SentDict.action))
           ELSE ClientInitError

C7_Witness ==
    /\ C7_Case
    /\ client.construct = "ok"
    /\ SentDict.action = Str("unknown_action")
    /\ IsError(400)
    /\ Body.message = Fmt(<<"Unknown action: ", "unknown_action">>)

---------------------------------------------------------------------------
(* C8 *)

\* the list call was issued and returned
C8_Case ==
    /\ FleetDone
    /\ result.calls # <<>>
    /\ result.calls[1].op = "list_fleets"
    /\ client.outcome.kind = "ok"

ReturnedIds ==
    LET ids == client.outcome.response.FleetIds
    IN  IF ids.t = "absent" THEN <<>> ELSE ids.v

\* C8: when the list call succeeds the answer is 200 with operation
\* "list_fleets", fleets the returned ids in the returned order, fleet_count
\* their number, and next_token the returned token, null when there is none.
C8_ListFleets ==
    C8_Case =>
        /\ IsSuccess
        /\ Body.operation = Str("list_fleets")
        /\ Body.fleets = List(ReturnedIds)
        /\ Body.fleet_count = Num(Len(ReturnedIds))
        /\ Body.next_token =
             IF client.outcome.response.NextToken.t = "absent"
             THEN JNull
             ELSE client.outcome.response.NextToken

C8_Witness ==
    /\ C8_Case
    /\ IsPost
    /\ SentDictGiven
    /\ SentDict.action = Absent
    /\ Len(ReturnedIds) = 2
    /\ ReturnedIds[1] # ReturnedIds[2]
    /\ Body.next_token = JNull
    /\ Body.fleet_count = Num(2)

---------------------------------------------------------------------------
(* C9 *)

\* the one remote call was issued and raised
C9_Case ==
    /\ FleetDone
    /\ result.calls # <<>>
    /\ client.outcome.kind \in {"ClientError", "Exception"}

GenericMessage ==
    IF result.calls[1].op = "list_fleets"
    THEN Fmt(<<"Unexpected error listing fleets">>)
    ELSE Fmt(<<"Unexpected error describing fleet">>)

C9_Message ==
    IF client.outcome.kind = "ClientError"
    THEN Contains(Body.message, client.outcome.code.v)
    ELSE Body.message = GenericMessage

\* C9 as stated: a remote-service error yields 500 "error" with the provider's
\* code in the message and details equal to the provider's message; any other
\* exception yields 500 with a generic message and details equal to str(e).
C9_DetailsAlwaysGiven ==
    C9_Case =>
        /\ IsError(500)
        /\ C9_Message
        /\ "details" \in DOMAIN Body
        /\ Body.details = client.outcome.message

\* C9 as amended: the same, except that the details field is present (and
\* equal to the provider's message, or to str(e)) only when that text is not
\* empty; when it is empty the body has no details field.
C9_RemoteError ==
    C9_Case =>
        /\ IsError(500)
        /\ C9_Message
        /\ IF client.outcome.message.v # ""
           THEN /\ "details" \in DOMAIN Body
                /\ Body.details = client.outcome.message
           ELSE "details" \notin DOMAIN Body

C9_Witness ==
    /\ C9_Case
    /\ client.outcome.kind = "ClientError"
    /\ result.calls[1].op = "describe_fleet_attributes"
    /\ Body.message = Fmt(<<"GameLift API error: ", "AccessDeniedException">>)
    /\ "details" \in DOMAIN Body
    /\ Body.details = Str("User is not authorized")

---------------------------------------------------------------------------
(* C10 *)

IsReadCall(call) ==
    \/ call.op = "list_fleets" /\ call.FleetIds = <<>>
    \/ call.op = "describe_fleet_attributes" /\ Len(call.FleetIds) = 1

\* C10: an invocation of the Fleet Handler issues at most one remote call,
\* a list or a describe of exactly one id, never a second one after a
\* failure, and none when it answers 400 or 405 or when the client could not
\* be constructed.
C10_AtMostOneReadCall ==
    FleetDone =>
        /\ Len(result.calls) <= 1
        /\ \A i \in DOMAIN result.calls : IsReadCall(result.calls[i])
        /\ (result.fault = "none" /\ StatusCode \in {400, 405}) => result.calls = <<>>
        /\ client.construct # "ok" => result.calls = <<>>

C10_Witness ==
    /\ FleetDone
    /\ client.outcome.kind = "ClientError"
    /\ result.calls = <<ListCall>>
    /\ IsError(500)

====
